---------------------------- MODULE Spec2Model ----------------------------
(***************************************************************************)
(* Credit-analysis pipeline of src/main.py: the ratio engine               *)
(* (calculate_ratios), the report schema (CreditReport), the analyst step  *)
(* (analyze_company) and the batch loop (run_batch_pipeline).              *)
(*                                                                         *)
(* Python dicts are functions whose DOMAIN is the set of keys present, so  *)
(* d[k] on a missing key is a KeyError and d.get(k, v) is a guarded read.  *)
(* Ratios are kept in hundredths (the integer 100 * round(x, 2)).          *)
(***************************************************************************)
EXTENDS Integers, Sequences, FiniteSets, TLC

\* ---------------------------------------------------------------- bounds
MaxFiles == 3     \* files found by glob in a batch run
MaxVal == 3       \* statement figures range over -MaxNeg .. MaxVal ...
MaxNeg == 1
ScenarioValues == {100, 200, 800, 1000}   \* ... and the figures of the documented scenarios
Values == (-MaxNeg .. MaxVal) \cup ScenarioValues

\* ------------------------------------------------------- Python results
\* A call either returns a value or raises; str(e) of the exception is msg.
Return(v) == [ok |-> TRUE, kind |-> "", msg |-> "", value |-> v]
Raise(kind, msg) == [ok |-> FALSE, kind |-> kind, msg |-> msg, value |-> <<>>]
KeyError(key) == Raise("KeyError", key)

\* d.get(k, default)
Get(d, k, default) == IF k \in DOMAIN d THEN d[k] ELSE default

\* ------------------------------------------------------------- rounding
RECURSIVE GCD(_, _)
GCD(a, b) == IF b = 0 THEN a ELSE GCD(b, a % b)

Abs(n) == IF n < 0 THEN -n ELSE n

RECURSIVE IsPow2(_)
IsPow2(n) == n = 1 \/ (n > 1 /\ n % 2 = 0 /\ IsPow2(n \div 2))

\* The float quotient num / den (den > 0) is exact iff the reduced
\* denominator is a power of two.
ExactQuotient(num, den) == IsPow2(den \div GCD(Abs(num), den))

\* round(num / den, 2) in hundredths, as the set of values the float
\* computation can give.  Off a tie the nearest hundredth; on a tie of an
\* exactly represented float, round-half-even; on a tie whose float carries a
\* representation error, either neighbour (the error's sign decides).
Round2(num, den, exact) ==
    LET q == (100 * num) \div den
        r == (100 * num) % den
    IN  IF 2 * r < den THEN {q}
        ELSE IF 2 * r > den THEN {q + 1}
        ELSE IF exact THEN {IF q % 2 = 0 THEN q ELSE q + 1}
        ELSE {q, q + 1}

\* --------------------------------------------------------- ratio engine
\* liquidity = curr["current_assets"] / liabilities if liabilities > 0 else 0
Liquidity(curr) ==
    LET liabilities == Get(curr, "current_liabilities", 0)
    IN  IF liabilities > 0
        THEN IF "current_assets" \in DOMAIN curr
             THEN Return(Round2(curr["current_assets"], liabilities,
                                ExactQuotient(curr["current_assets"], liabilities)))
             ELSE KeyError("current_assets")
        ELSE Return({0})

\* Mutant of Margin: the fraction, not the percentage.
MarginFraction(curr) ==
    LET revenue == Get(curr, "revenue", 0)
    IN  IF revenue > 0
        THEN IF "net_income" \in DOMAIN curr
             THEN Return(Round2(curr["net_income"], revenue,
                                ExactQuotient(curr["net_income"], revenue)))
             ELSE KeyError("net_income")
        ELSE Return({0})

\* margin = (curr["net_income"] / revenue) * 100 if revenue > 0 else 0
Margin(curr) ==
    LET revenue == Get(curr, "revenue", 0)
    IN  IF revenue > 0
        THEN IF "net_income" \in DOMAIN curr
             THEN Return(Round2(100 * curr["net_income"], revenue,
                                ExactQuotient(curr["net_income"], revenue)))
             ELSE KeyError("net_income")
        ELSE Return({0})

\* growth = 0
\* if prev and prev.get("revenue", 0) > 0:
\*     growth = ((curr["revenue"] - prev["revenue"]) / prev["revenue"]) * 100
Growth(curr, prev) ==
    IF DOMAIN prev # {} /\ Get(prev, "revenue", 0) > 0
    THEN IF "revenue" \in DOMAIN curr
         THEN Return(Round2(100 * (curr["revenue"] - prev["revenue"]), prev["revenue"],
                            ExactQuotient(curr["revenue"] - prev["revenue"],
                                          prev["revenue"])))
         ELSE KeyError("revenue")
    ELSE Return({0})

\* Mutant of calculate_ratios: a missing current_year read as an empty dict.
calculate_ratios_defaulting(data) ==
    IF "financials" \notin DOMAIN data THEN {KeyError("financials")}
    ELSE
      LET curr == Get(data["financials"], "current_year", <<>>)
          prev == Get(data["financials"], "previous_year", <<>>)
          liquidity == Liquidity(curr)
          margin == Margin(curr)
          growth == Growth(curr, prev)
      IN  IF ~liquidity.ok THEN {liquidity}
          ELSE IF ~margin.ok THEN {margin}
          ELSE IF ~growth.ok THEN {growth}
          ELSE {Return([liquidity |-> l, margin |-> m, growth |-> g]) :
                    l \in liquidity.value, m \in margin.value, g \in growth.value}

\* calculate_ratios(data): the set of outcomes the call can have (one, unless
\* a rounding tie is left open by Round2).  Exceptions in statement order.
calculate_ratios(data) ==
    IF "financials" \notin DOMAIN data THEN {KeyError("financials")}
    ELSE IF "current_year" \notin DOMAIN data["financials"] THEN {KeyError("current_year")}
    ELSE
      LET curr == data["financials"]["current_year"]
          prev == Get(data["financials"], "previous_year", <<>>)
          liquidity == Liquidity(curr)
          margin == Margin(curr)
          growth == Growth(curr, prev)
      IN  IF ~liquidity.ok THEN {liquidity}
          ELSE IF ~margin.ok THEN {margin}
          ELSE IF ~growth.ok THEN {growth}
          ELSE {Return([liquidity |-> l, margin |-> m, growth |-> g]) :
                    l \in liquidity.value, m \in margin.value, g \in growth.value}


\* -------------------------------------------------------- report schema
\* JSON scalars of a provider response, tagged with their JSON type.
JInt(n) == [t |-> "int", n |-> n, s |-> ""]
JStr(s) == [t |-> "str", n |-> 0, s |-> s]
JNull == [t |-> "null", n |-> 0, s |-> ""]

\* Mutant of CreditReport: risk_score optional, defaulting to 0.
CreditReportLenient(obj) ==
    IF /\ "summary" \in DOMAIN obj /\ obj["summary"].t = "str"
       /\ "final_verdict" \in DOMAIN obj /\ obj["final_verdict"].t = "str"
       /\ "rationale" \in DOMAIN obj /\ obj["rationale"].t = "str"
    THEN Return([summary |-> obj["summary"].s,
                 risk_score |-> IF "risk_score" \in DOMAIN obj /\ obj["risk_score"].t = "int"
                                THEN obj["risk_score"].n ELSE 0,
                 final_verdict |-> obj["final_verdict"].s,
                 rationale |-> obj["rationale"].s])
    ELSE Raise("ValidationError", "CreditReport")

\* class CreditReport(BaseModel): three str fields and one int field, all
\* required, no further constraint.  Validation of a decoded JSON object:
\* a field that is absent, null or of the other scalar type is rejected.
\* (The response domain holds no numeric strings, which an int field coerces.)
CreditReport(obj) ==
    IF /\ "summary" \in DOMAIN obj /\ obj["summary"].t = "str"
       /\ "risk_score" \in DOMAIN obj /\ obj["risk_score"].t = "int"
       /\ "final_verdict" \in DOMAIN obj /\ obj["final_verdict"].t = "str"
       /\ "rationale" \in DOMAIN obj /\ obj["rationale"].t = "str"
    THEN Return([summary |-> obj["summary"].s,
                 risk_score |-> obj["risk_score"].n,
                 final_verdict |-> obj["final_verdict"].s,
                 rationale |-> obj["rationale"].s])
    ELSE Raise("ValidationError", "CreditReport")

\* What the provider does with one request: it raises (unreachable, rate
\* limit), or it answers with text that is or is not a JSON object.
ProviderRaises == [raises |-> TRUE, json |-> FALSE, obj |-> <<>>]
NotJson == [raises |-> FALSE, json |-> FALSE, obj |-> <<>>]
JsonReply(obj) == [raises |-> FALSE, json |-> TRUE, obj |-> obj]

\* chain = prompt | llm | parser; chain.invoke(...): the llm call, then
\* PydanticOutputParser: decode the text, validate it as a CreditReport, and
\* raise OutputParserException when either fails.
chain_invoke(reply) ==
    IF reply.raises THEN Raise("APIError", "provider")
    ELSE IF ~reply.json THEN Raise("OutputParserException", "Invalid json output")
    ELSE LET report == CreditReport(reply.obj)
         IN  IF report.ok THEN report
             ELSE Raise("OutputParserException", "Failed to parse CreditReport")

\* --------------------------------------------------------- analyst step
\* A file on disk: text that json.load decodes to the dict `data`, or not.
Json(data) == [decodes |-> TRUE, data |-> data]
Undecodable == [decodes |-> FALSE, data |-> <<>>]

\* The dict analyze_company returns, and the order of its keys.
AnalysisFields ==
    << "Data_Analise", "Empresa", "Liquidez", "Margem_Percent",
       "Crescimento_Percent", "Score_Risco", "Veredito", "Justificativa_IA" >>

Analysis(now, name, ratios, result) ==
    [Data_Analise |-> now,
     Empresa |-> name,
     Liquidez |-> ratios.liquidity,
     Margem_Percent |-> ratios.margin,
     Crescimento_Percent |-> ratios.growth,
     Score_Risco |-> result.risk_score,
     Veredito |-> result.final_verdict,
     Justificativa_IA |-> result.rationale]

\* analyze_company(filepath), with the file's content, the provider's reply to
\* its request and the time read by datetime.now(): the set of outcomes.
analyze_company(content, reply, now) ==
    IF ~content.decodes THEN {Raise("JSONDecodeError", "Expecting value")}
    ELSE LET company_data == content.data IN
    IF "company_info" \notin DOMAIN company_data THEN {KeyError("company_info")}
    ELSE IF "name" \notin DOMAIN company_data["company_info"] THEN {KeyError("name")}
    ELSE
      LET name == company_data["company_info"]["name"]
          result == chain_invoke(reply)
      IN  { IF ~ratios.ok THEN ratios
            ELSE IF ~result.ok THEN result
            ELSE Return(Analysis(now, name, ratios.value, result.value)) :
                ratios \in calculate_ratios(company_data) }

\* ----------------------------------------------------------- batch state
VARIABLES
    files,     \* the list glob returns: the paths, in the order processed
    disk,      \* path -> content of the file
    llm,       \* path -> what the provider does with that file's request
    clock,     \* datetime.now(), in minutes since the run started
    pc,        \* "loop", "done"
    idx,       \* position of the for loop in files
    results,   \* the accumulator
    stdout,    \* what the run has printed
    sink       \* the CSV files written under data/output

vars == << files, disk, llm, clock, pc, idx, results, stdout, sink >>

MaxClock == 1     \* minutes a run may last

Line(tag, file, info) == [tag |-> tag, file |-> file, info |-> info]

\* Mutant of Try: the row is put at the head of the accumulator.
TryPrepend(file, analysis) ==
    /\ results' = << analysis >> \o results
    /\ stdout' = stdout \o << Line("processing", file, ""),
                              Line("decision", file, analysis["Veredito"]) >>
    /\ idx' = idx + 1
    /\ pc' = pc

\* try: print(Processando); analysis = analyze_company(file);
\*      results.append(analysis); print(Decisão)
Try(file, analysis) ==
    /\ results' = Append(results, analysis)
    /\ stdout' = stdout \o << Line("processing", file, ""),
                              Line("decision", file, analysis["Veredito"]) >>
    /\ idx' = idx + 1
    /\ pc' = pc

\* Mutant of Except: the error is swallowed without a message.
ExceptSilent(file, e) ==
    /\ results' = results
    /\ stdout' = Append(stdout, Line("processing", file, ""))
    /\ idx' = idx + 1
    /\ pc' = pc

\* Mutant of Except: the error is raised again and ends the run.
ExceptReraise(file, e) ==
    /\ results' = results
    /\ stdout' = Append(stdout, Line("processing", file, ""))
    /\ idx' = idx
    /\ pc' = "crashed"

\* except Exception as e: print(Erro crítico no arquivo {file}: {str(e)})
Except(file, e) ==
    /\ results' = results
    /\ stdout' = stdout \o << Line("processing", file, ""),
                              Line("error", file, e.msg) >>
    /\ idx' = idx + 1
    /\ pc' = pc

\* One iteration of `for file in files`.
Iterate ==
    /\ pc = "loop"
    /\ idx <= Len(files)
    /\ \E now \in {t \in {clock, clock + 1} : t <= MaxClock} :
         \E out \in analyze_company(disk[files[idx]], llm[files[idx]], now) :
            /\ clock' = now
            /\ \/ out.ok /\ Try(files[idx], out.value)
               \/ ~out.ok /\ Except(files[idx], out)
    /\ UNCHANGED << files, disk, llm, sink >>

\* csv.DictWriter(f, fieldnames=keys): the header, then one line per row with
\* the row's value under each field name.
WriteCsv(path, keys, rows) ==
    [path |-> path,
     header |-> keys,
     lines |-> [i \in 1 .. Len(rows) |-> [j \in 1 .. Len(keys) |-> rows[i][keys[j]]]]]

\* if results: write the report
WriteReport ==
    /\ sink' = Append(sink, WriteCsv(0, AnalysisFields, results))
    /\ stdout' = Append(stdout, Line("report", 0, ""))

\* Mutant of NothingProcessed: an empty report file is written all the same.
NothingProcessedWritesFile ==
    /\ sink' = Append(sink, [path |-> 0, header |-> << >>, lines |-> << >>])
    /\ stdout' = Append(stdout, Line("nothing", 0, ""))

\* else: print(Nenhum dado foi processado)
NothingProcessed ==
    /\ sink' = sink
    /\ stdout' = Append(stdout, Line("nothing", 0, ""))

\* After the loop.
Emit ==
    /\ pc = "loop"
    /\ idx > Len(files)
    /\ \/ results # << >> /\ WriteReport
       \/ results = << >> /\ NothingProcessed
    /\ pc' = "done"
    /\ UNCHANGED << files, disk, llm, clock, idx, results >>

Next == Iterate \/ Emit

\* ---------------------------------------------------------------- inputs
CurrentYear(assets, liabilities, revenue, income) ==
    [current_assets |-> assets, current_liabilities |-> liabilities,
     revenue |-> revenue, net_income |-> income]

Company(name, financials) ==
    [company_info |-> [name |-> name], financials |-> financials]

\* The documented scenarios: no previous year; previous revenue 800.
Scenario1 == Company("Alfa", [current_year |-> CurrentYear(200, 100, 1000, 100)])
Scenario2 == Company("Beta", [current_year |-> CurrentYear(200, 100, 1000, 100),
                              previous_year |-> [revenue |-> 800]])
\* A record without financials.current_year.
NoCurrentYear == Company("Gama", [previous_year |-> [revenue |-> 800]])

ValidReply ==
    JsonReply([summary |-> JStr("text"), risk_score |-> JInt(20),
               final_verdict |-> JStr("APPROVE"), rationale |-> JStr("text")])
NoRiskScoreReply ==
    JsonReply([summary |-> JStr("text"),
               final_verdict |-> JStr("APPROVE"), rationale |-> JStr("text")])
MistypedReply ==
    JsonReply([summary |-> JStr("text"), risk_score |-> JStr("low"),
               final_verdict |-> JStr("APPROVE"), rationale |-> JStr("text")])

Input(content, reply) == [content |-> content, reply |-> reply]

\* What a file of a batch run can be: each kind of failure, and two successes.
BatchInputs ==
    { Input(Undecodable, ValidReply),
      Input(Json(NoCurrentYear), ValidReply),
      Input(Json(Scenario1), ValidReply),
      Input(Json(Scenario2), ValidReply),
      Input(Json(Scenario1), ProviderRaises),
      Input(Json(Scenario2), NoRiskScoreReply),
      Input(Json(Scenario1), MistypedReply) }

\* Every shape of financials the ratio engine reads: any subset of the four
\* current-year keys, and previous_year absent, empty, or with a revenue.
CurrentYearKeys == {"current_assets", "current_liabilities", "revenue", "net_income"}
PreviousYears == {<<>>} \cup {[revenue |-> v] : v \in Values}
Financials(current_year) ==
    {[current_year |-> current_year]}
    \cup {[current_year |-> current_year, previous_year |-> p] : p \in PreviousYears}

\* Every shape of provider response the schema has to judge: each field
\* absent, null, of the wrong type, or of the right type with a value inside
\* or outside what the field descriptions ask for.
JAbsent == [t |-> "absent", n |-> 0, s |-> ""]
TextOptions == {JAbsent, JNull, JStr(""), JStr("text")}
ScoreOptions ==
    {JAbsent, JNull, JStr("low"), JInt(-1), JInt(0), JInt(20), JInt(100), JInt(101)}
VerdictOptions ==
    {JAbsent, JNull, JInt(1), JStr("APPROVE"), JStr("DENY"), JStr("WITH_CONDITIONS"),
     JStr("APROVAR"), JStr("MAYBE")}
Present(f) == [k \in {k \in DOMAIN f : f[k].t # "absent"} |-> f[k]]
Replies ==
    {ProviderRaises, NotJson}
    \cup {JsonReply(Present(f)) :
              f \in [summary : TextOptions, risk_score : ScoreOptions,
                     final_verdict : VerdictOptions, rationale : TextOptions]}

\* Documents that are malformed at each level, and a well-formed one.
Documents ==
    { Undecodable, Json(Scenario1), Json(NoCurrentYear),
      Json([financials |-> Scenario1.financials]),
      Json([company_info |-> <<>>, financials |-> Scenario1.financials]),
      Json([company_info |-> [name |-> "Alfa"]]) }

\* ------------------------------------------------------ specifications
\* The state run_batch_pipeline starts its loop in, over the given inputs.
Start(inputs) ==
    /\ files = [i \in 1 .. Len(inputs) |-> i]
    /\ disk = [i \in 1 .. Len(inputs) |-> inputs[i].content]
    /\ llm = [i \in 1 .. Len(inputs) |-> inputs[i].reply]
    /\ clock = 0
    /\ pc = "loop"
    /\ idx = 1
    /\ results = << >>
    /\ stdout = << Line("start", 0, ""), Line("found", 0, "") >>
    /\ sink = << >>

\* A batch run over up to MaxFiles files.
Init == \E n \in 0 .. MaxFiles : \E inputs \in [1 .. n -> BatchInputs] : Start(inputs)

Spec == Init /\ [][Next]_vars

\* The run is one sequential thread: it takes its next step whenever it has one.
LiveSpec == Init /\ [][Next]_vars /\ WF_vars(Next)

\* A run over one file: every financial shape with a conforming reply, and
\* every reply with every document.
AnalystInit ==
    \/ \E K \in SUBSET CurrentYearKeys : \E c \in [K -> Values] :
          \E f \in Financials(c) :
             Start(<< Input(Json(Company("Alfa", f)), ValidReply) >>)
    \/ \E c \in Documents : \E r \in Replies : Start(<< Input(c, r) >>)

AnalystSpec == AnalystInit /\ [][Next]_vars

\* ------------------------------------------------------------ properties
\* Positions of files the loop has gone past, and what was printed for a file.
Processed == 1 .. (idx - 1)
LinesOf(tag) == {i \in DOMAIN stdout : stdout[i].tag = tag}
LinesFor(tag, file) == {i \in LinesOf(tag) : stdout[i].file = file}
IsTag(tag, line) == line.tag = tag
IsProcessing(line) == IsTag("processing", line)
IsDecision(line) == IsTag("decision", line)
FilesOf(lines) == [i \in 1 .. Len(lines) |-> lines[i].file]
\* The files attempted, and the files that produced a row, in print order.
AttemptedFiles == FilesOf(SelectSeq(stdout, IsProcessing))
RowOrigins == FilesOf(SelectSeq(stdout, IsDecision))

\* The kinds of input failure, read off the input alone.
DecodeFailure(f) == ~disk[f].decodes
MissingCurrentYear(f) ==
    /\ disk[f].decodes
    /\ "financials" \in DOMAIN disk[f].data
    /\ "current_year" \notin DOMAIN disk[f].data["financials"]
ProviderFailure(f) == llm[f].raises
Conforms(obj) ==
    /\ {"summary", "risk_score", "final_verdict", "rationale"} \subseteq DOMAIN obj
    /\ obj["summary"].t = "str" /\ obj["final_verdict"].t = "str"
    /\ obj["rationale"].t = "str" /\ obj["risk_score"].t = "int"
SchemaFailure(f) == ~llm[f].raises /\ (~llm[f].json \/ ~Conforms(llm[f].obj))
Fails(f) ==
    DecodeFailure(f) \/ MissingCurrentYear(f) \/ ProviderFailure(f) \/ SchemaFailure(f)
Successes == {i \in DOMAIN files : ~Fails(files[i])}

\* C1: when a batch run over N files, K of them analysable, ends, the report
\* holds exactly K rows and exactly N - K diagnostics were printed; with
\* K = 0 no report is written.
C1_RowsAndDiagnostics ==
    pc = "done" =>
        LET K == Cardinality(Successes)
            N == Len(files)
        IN  /\ Len(results) = K
            /\ Cardinality(LinesOf("error")) = N - K
            /\ K > 0 => Len(sink) = 1 /\ Len(sink[1].lines) = K
            /\ K = 0 => sink = << >>

C1_Witness ==
    /\ pc = "done"
    /\ Len(files) = 3
    /\ Cardinality(Successes) = 1
    /\ Cardinality(LinesOf("error")) = 2
    /\ Len(sink) = 1

\* C2: every file is attempted exactly once, in the order of the list,
\* whatever happened to the files before it, and the run reaches the step
\* after the loop and finishes it.
C2_EveryFileAttempted ==
    /\ [](AttemptedFiles = SubSeq(files, 1, idx - 1))
    /\ <>(/\ pc = "done"
          /\ AttemptedFiles = files
          /\ stdout[Len(stdout)].tag \in {"report", "nothing"})

C2_Witness ==
    /\ pc = "done"
    /\ Len(files) = 3
    /\ Fails(files[1]) /\ Fails(files[2]) /\ ~Fails(files[3])
    /\ AttemptedFiles = files
    /\ Len(results) = 1

\* C3: the report file is written at most once, only after every file was
\* attempted, and exactly when some file succeeded; otherwise the run prints
\* that nothing was processed and writes no file.
C3_SinkWrittenOnce ==
    /\ Len(sink) <= 1
    /\ sink # << >> => pc = "done" /\ AttemptedFiles = files
    /\ pc = "done" =>
          /\ sink # << >> <=> Successes # {}
          /\ Successes = {} => LinesOf("nothing") # {}
          /\ Successes # {} => LinesOf("nothing") = {}

C3_Witness ==
    /\ pc = "done"
    /\ Len(sink) = 1
    /\ Len(files) = 3
    /\ Fails(files[3])
    /\ LinesOf("report") # {}

Verdicts == {"APPROVE", "DENY", "WITH_CONDITIONS"}

\* C4 (as claimed): the analyst step is fail-closed on the schema: a report
\* it returns has a non-empty summary, a risk_score within 0 .. 100, a
\* final_verdict among the three verdicts and a non-empty rationale, and so
\* has every row of the batch.
C4_FailClosed ==
    /\ \A i \in Processed :
          LET report == chain_invoke(llm[files[i]])
          IN  (report.ok /\ LinesFor("decision", files[i]) # {}) =>
                 /\ report.value.summary # ""
                 /\ report.value.risk_score \in 0 .. 100
                 /\ report.value.final_verdict \in Verdicts
                 /\ report.value.rationale # ""
    /\ \A k \in DOMAIN results :
          /\ results[k]["Score_Risco"] \in 0 .. 100
          /\ results[k]["Veredito"] \in Verdicts

HasCurrentYear(f) ==
    /\ disk[f].decodes
    /\ "financials" \in DOMAIN disk[f].data
    /\ "current_year" \in DOMAIN disk[f].data["financials"]

\* C5 (as claimed): calculate_ratios never fails on a record that has
\* financials.current_year, whichever current-year fields are absent, and
\* returns three numbers.
C5_RatiosTotal ==
    \A i \in Processed :
        HasCurrentYear(files[i]) =>
            \A out \in calculate_ratios(disk[files[i]].data) :
                out.ok /\ DOMAIN out.value = {"liquidity", "margin", "growth"}

\* The ratios r (in hundredths) of a record with all four current-year
\* fields, each ratio either 0 or in relation Rel to its quotient num / den.
RatiosAs(Rel(_, _, _), r, curr, prev) ==
    /\ IF curr["current_liabilities"] <= 0 THEN r.liquidity = 0
       ELSE Rel(r.liquidity, curr["current_assets"], curr["current_liabilities"])
    /\ IF curr["revenue"] <= 0 THEN r.margin = 0
       ELSE Rel(r.margin, 100 * curr["net_income"], curr["revenue"])
    /\ IF "revenue" \notin DOMAIN prev \/ prev["revenue"] <= 0 THEN r.growth = 0
       ELSE Rel(r.growth, 100 * (curr["revenue"] - prev["revenue"]), prev["revenue"])
\* h hundredths is exactly num / den; h hundredths is within 0.005 of num / den.
IsQuotient(h, num, den) == h * den = 100 * num
IsNearestHundredth(h, num, den) == 2 * Abs(h * den - 100 * num) <= den

AllFour(f) ==
    HasCurrentYear(f) /\ DOMAIN disk[f].data["financials"]["current_year"] = CurrentYearKeys
RatiosOfAllFour(Rel(_, _, _)) ==
    \A i \in Processed :
        AllFour(files[i]) =>
            LET fin == disk[files[i]].data["financials"]
                curr == fin["current_year"]
                prev == Get(fin, "previous_year", <<>>)
                outs == calculate_ratios(disk[files[i]].data)
            IN  /\ \A out \in outs : out.ok /\ RatiosAs(Rel, out.value, curr, prev)
                /\ \A k \in DOMAIN results :
                      \E out \in outs :
                          /\ results[k]["Liquidez"] = out.value.liquidity
                          /\ results[k]["Margem_Percent"] = out.value.margin
                          /\ results[k]["Crescimento_Percent"] = out.value.growth
                /\ curr = CurrentYear(200, 100, 1000, 100) =>
                      /\ prev = <<>> =>
                            outs = {Return([liquidity |-> 200, margin |-> 1000, growth |-> 0])}
                      /\ prev = [revenue |-> 800] =>
                            \A out \in outs : out.value.growth = 2500

\* C6 (as claimed): with all four current-year fields present, each ratio is
\* 0 when its denominator is <= 0 (or the previous year is absent) and the
\* quotient itself otherwise.
C6_ExactQuotients == RatiosOfAllFour(IsQuotient)

\* C6 (amended): ... and otherwise the quotient rounded to two decimal
\* places: a whole number of hundredths within 0.005 of it.  The scenario
\* record gives 2.0, 10.0, 0.0, and growth 25.0 with previous revenue 800.
C6_RoundedQuotients == RatiosOfAllFour(IsNearestHundredth)

C6_Witness ==
    /\ idx > 1
    /\ AllFour(files[1])
    /\ disk[files[1]].data["financials"] =
          [current_year |-> CurrentYear(200, 100, 1000, 100), previous_year |-> [revenue |-> 800]]
    /\ Len(results) = 1
    /\ results[1]["Liquidez"] = 200
    /\ results[1]["Margem_Percent"] = 1000
    /\ results[1]["Crescimento_Percent"] = 2500

Position(f) == CHOOSE i \in DOMAIN files : files[i] = f
RowsInInputOrder ==
    /\ Len(results) = Len(RowOrigins)
    /\ \A j, k \in DOMAIN RowOrigins :
          j < k => Position(RowOrigins[j]) < Position(RowOrigins[k])
    /\ \A k \in DOMAIN results :
          \E t \in 0 .. MaxClock :
             \E out \in analyze_company(disk[RowOrigins[k]], llm[RowOrigins[k]], t) :
                out.ok /\ out.value = results[k]
    /\ \A w \in DOMAIN sink :
          /\ Len(sink[w].lines) = Len(results)
          /\ \A k \in DOMAIN results : \A j \in DOMAIN sink[w].header :
                sink[w].lines[k][j] = results[k][sink[w].header[j]]

\* C9: the rows are in the order of their files in the list, each is the row
\* analyze_company returned for its file, the report holds them in that
\* order, and a row once appended is never moved, changed or removed.
C9_RowsInInputOrder ==
    /\ []RowsInInputOrder
    /\ [][/\ Len(results') >= Len(results)
          /\ SubSeq(results', 1, Len(results)) = results]_vars

C9_Witness ==
    /\ pc = "done"
    /\ Len(files) = 3
    /\ disk[files[1]] = Json(Scenario2) /\ ~Fails(files[1])
    /\ Fails(files[2])
    /\ disk[files[3]] = Json(Scenario1) /\ ~Fails(files[3])
    /\ Len(results) = 2
    /\ results[1]["Empresa"] = "Beta" /\ results[2]["Empresa"] = "Alfa"
    /\ sink[1].lines[1][2] = "Beta" /\ sink[1].lines[2][2] = "Alfa"

\* C10 (as claimed): every row, and the header of the report, has exactly
\* nine fields: timestamp, company name, three ratios, and the four fields
\* of the CreditReport.
C10_NineFields ==
    /\ \A k \in DOMAIN results : Cardinality(DOMAIN results[k]) = 9
    /\ \A w \in DOMAIN sink :
          /\ Len(sink[w].header) = 9
          /\ \A k \in DOMAIN sink[w].lines : Len(sink[w].lines[k]) = 9

=============================================================================
